---- MODULE Spec2Model ----
(***************************************************************************)
(* Model of the news portal of thebookish/newstoday.                       *)
(*                                                                         *)
(*   - src/app/main.py   NewsChain.fetch_news_headlines: fetch a page,     *)
(*                       collect (text, link) pairs of the anchors matched *)
(*                       by a fixed list of CSS selectors.                 *)
(*   - src/app/chains.py NewsChain.fetch_global_trending_news, the polling *)
(*                       loop fetch_live_news and the page script          *)
(*                       create_streamlit_app that call it.                *)
(*                                                                         *)
(* Strings are modelled by what the code does with them.  A text node is a *)
(* sequence of characters (so that strip() has something to strip), a URL  *)
(* is a sequence of lexical tokens (delimiters ":" "//" "/" "?" "#" and    *)
(* names), so that urlparse / urljoin / urlunparse are real conversions.   *)
(***************************************************************************)
EXTENDS Integers, Sequences, FiniteSets, TLC

(***************************************************************************)
(* Generic sequence helpers.                                               *)
(***************************************************************************)
Drop(s, n) == IF n >= Len(s) THEN << >> ELSE SubSeq(s, n + 1, Len(s))

Take(s, n) == IF n <= 0 THEN << >> ELSE SubSeq(s, 1, IF n < Len(s) THEN n ELSE Len(s))

\* str.find: index of the first element of s that lies in set D, 0 when none
RECURSIVE FindFrom(_, _, _)
FindFrom(s, D, i) ==
    IF i > Len(s) THEN 0
    ELSE IF s[i] \in D THEN i
    ELSE FindFrom(s, D, i + 1)

Find(s, D) == FindFrom(s, D, 1)

RECURSIVE Concat(_)
Concat(ss) == IF ss = << >> THEN << >> ELSE Head(ss) \o Concat(Tail(ss))

SeqsUpTo(S, n) == UNION {[1..k -> S] : k \in 0..n}

(***************************************************************************)
(* Text: bs4 Tag.get_text(strip=True) -- every string below the tag is     *)
(* stripped, strings that are empty after stripping are dropped, the rest  *)
(* is joined with the empty separator.                                     *)
(***************************************************************************)
Whitespace == {" ", "\n", "\t"}

RECURSIVE lstrip(_)
lstrip(s) ==
    IF s = << >> THEN << >>
    ELSE IF Head(s) \in Whitespace THEN lstrip(Tail(s))
    ELSE s

RECURSIVE rstrip(_)
rstrip(s) ==
    IF s = << >> THEN << >>
    ELSE IF s[Len(s)] \in Whitespace THEN rstrip(SubSeq(s, 1, Len(s) - 1))
    ELSE s

strip(s) == rstrip(lstrip(s))

RECURSIVE all_strings_stripped(_)
all_strings_stripped(strings) ==
    IF strings = << >> THEN << >>
    ELSE LET str == strip(Head(strings))
         IN  IF Len(str) = 0
             THEN all_strings_stripped(Tail(strings))
             ELSE <<str>> \o all_strings_stripped(Tail(strings))

\* get_text() without strip=True: the strings are joined as they are
get_text_unstripped(tag) == Concat(tag.strings)

get_text(tag) == Concat(all_strings_stripped(tag.strings))

(***************************************************************************)
(* URLs: urllib.parse as reached through requests.compat.urljoin.          *)
(* A URL string is a token sequence; components are token sequences, the   *)
(* scheme is a single name ("" when there is none).  The ";params" part    *)
(* of the last path segment does not occur in the pages modelled.          *)
(***************************************************************************)
Delims == {":", "//", "/", "?", "#"}

uses_relative ==
    {"", "ftp", "http", "gopher", "nntp", "imap", "wais", "file", "https",
     "shttp", "mms", "prospero", "rtsp", "rtsps", "rtspu", "sftp", "svn",
     "svn+ssh", "ws", "wss"}

uses_netloc ==
    {"", "ftp", "http", "gopher", "nntp", "telnet", "imap", "wais", "file",
     "mms", "https", "shttp", "snews", "prospero", "rtsp", "rtsps", "rtspu",
     "rsync", "svn", "svn+ssh", "sftp", "nfs", "git", "git+ssh", "ws", "wss"}

\* url[:2] == '//'
StartsDoubleSlash(u) ==
    \/ Len(u) >= 1 /\ u[1] = "//"
    \/ Len(u) >= 2 /\ u[1] = "/" /\ u[2] = "/"

\* url[:1] == '/'
StartsSlash(u) == Len(u) >= 1 /\ u[1] \in {"/", "//"}

urlsplit(url, scheme) ==
    LET hasScheme == Len(url) >= 2 /\ url[1] \notin Delims /\ url[2] = ":"
        sch   == IF hasScheme THEN url[1] ELSE scheme
        r1    == IF hasScheme THEN Drop(url, 2) ELSE url
        hasNet == Len(r1) >= 1 /\ r1[1] = "//"
        r1b   == IF hasNet THEN Tail(r1) ELSE r1
        d     == Find(r1b, {"/", "?", "#"})
        netloc == IF ~hasNet THEN << >>
                  ELSE IF d = 0 THEN r1b ELSE Take(r1b, d - 1)
        r2    == IF ~hasNet THEN r1
                 ELSE IF d = 0 THEN << >> ELSE Drop(r1b, d - 1)
        h     == Find(r2, {"#"})
        fragment == IF h = 0 THEN << >> ELSE Drop(r2, h)
        r3    == IF h = 0 THEN r2 ELSE Take(r2, h - 1)
        q     == Find(r3, {"?"})
        query == IF q = 0 THEN << >> ELSE Drop(r3, q)
        path  == IF q = 0 THEN r3 ELSE Take(r3, q - 1)
    IN  [scheme |-> sch, netloc |-> netloc, path |-> path,
         query |-> query, fragment |-> fragment]

urlunsplit(scheme, netloc, path, query, fragment) ==
    LET u1 == IF netloc # << >>
                 \/ (scheme # "" /\ scheme \in uses_netloc /\ ~StartsDoubleSlash(path))
              THEN <<"//">> \o netloc
                   \o (IF path # << >> /\ ~StartsSlash(path) THEN <<"/">> \o path ELSE path)
              ELSE path
        u2 == IF scheme # "" THEN <<scheme, ":">> \o u1 ELSE u1
        u3 == IF query # << >> THEN u2 \o <<"?">> \o query ELSE u2
    IN  IF fragment # << >> THEN u3 \o <<"#">> \o fragment ELSE u3

\* path.split('/'): the list of segments, "" for an empty one
RECURSIVE split_path(_)
split_path(p) ==
    IF p = << >> THEN <<"">>
    ELSE IF p[1] = "/" THEN <<"">> \o split_path(Tail(p))
    ELSE IF Len(p) = 1 THEN <<p[1]>>
    ELSE <<p[1]>> \o split_path(Tail(Tail(p)))

\* '/'.join(segments)
RECURSIVE join_path(_)
join_path(segs) ==
    IF segs = << >> THEN << >>
    ELSE LET tok == IF Head(segs) = "" THEN << >> ELSE <<Head(segs)>>
         IN  IF Len(segs) = 1 THEN tok
             ELSE tok \o <<"/">> \o join_path(Tail(segs))

\* segments[1:-1] = filter(None, segments[1:-1])
filter_middle(segs) ==
    IF Len(segs) < 2 THEN segs
    ELSE <<segs[1]>>
         \o SelectSeq(SubSeq(segs, 2, Len(segs) - 1), LAMBDA s : s # "")
         \o <<segs[Len(segs)]>>

\* the loop over segments that removes "." and ".."
RECURSIVE resolve_dots(_, _)
resolve_dots(segs, resolved) ==
    IF segs = << >> THEN resolved
    ELSE LET seg == Head(segs)
         IN  IF seg = ".."
             THEN resolve_dots(Tail(segs),
                               IF resolved = << >> THEN << >>
                               ELSE SubSeq(resolved, 1, Len(resolved) - 1))
             ELSE IF seg = "."
             THEN resolve_dots(Tail(segs), resolved)
             ELSE resolve_dots(Tail(segs), Append(resolved, seg))

\* the part of urljoin that merges the reference path with the base path
base_parts(bpath) ==
    IF split_path(bpath)[Len(split_path(bpath))] # ""
    THEN SubSeq(split_path(bpath), 1, Len(split_path(bpath)) - 1)
    ELSE split_path(bpath)

path_segments(bpath, path) ==
    IF StartsSlash(path)
    THEN split_path(path)
    ELSE filter_middle(base_parts(bpath) \o split_path(path))

resolved_path(segments) ==
    IF segments[Len(segments)] \in {".", ".."}
    THEN Append(resolve_dots(segments, << >>), "")
    ELSE resolve_dots(segments, << >>)

merge_paths(bpath, path) ==
    IF join_path(resolved_path(path_segments(bpath, path))) = << >>
    THEN <<"/">>
    ELSE join_path(resolved_path(path_segments(bpath, path)))

\* urljoin once both arguments are parsed: b the base, u the reference
join_parsed(url, b, u) ==
    IF u.scheme # b.scheme \/ u.scheme \notin uses_relative THEN url
    ELSE IF u.scheme \in uses_netloc /\ u.netloc # << >>
    THEN urlunsplit(u.scheme, u.netloc, u.path, u.query, u.fragment)
    ELSE IF u.path = << >>
    THEN urlunsplit(u.scheme,
                    IF u.scheme \in uses_netloc THEN b.netloc ELSE u.netloc,
                    b.path,
                    IF u.query = << >> THEN b.query ELSE u.query,
                    u.fragment)
    ELSE urlunsplit(u.scheme,
                    IF u.scheme \in uses_netloc THEN b.netloc ELSE u.netloc,
                    merge_paths(b.path, u.path),
                    u.query, u.fragment)

\* the link appended as found in the page, never resolved against the base
urljoin_unresolved(base, url) == url

urljoin(base, url) ==
    IF base = << >> THEN url
    ELSE IF url = << >> THEN base
    ELSE join_parsed(url, urlsplit(base, ""),
                     urlsplit(url, urlsplit(base, "").scheme))

(***************************************************************************)
(* Pages.  A page is the sequence, in document order, of its anchors.  An  *)
(* anchor carries the strings below it, its attributes (a set of           *)
(* <<name, value>> pairs) and the selectors of headline_selectors that     *)
(* soup.select would match it with (its place in the document tree).       *)
(***************************************************************************)
headline_selectors ==
    <<"h1 a", "h2 a", "h3 a", ".headline a", ".news-title a",
      ".entry-title a", ".post-title a">>

MaxAnchors == 2

Texts ==
    { << <<"X">> >>,
      << <<" ", "X", " ">> >>,
      << <<" ">>, <<"\n", "\t">> >>,
      << <<"X", " ">>, <<"\n">>, <<" ", "Y">> >> }

Hrefs ==
    { <<"/", "story", "/", "1">>,
      <<"https", ":", "//", "other.org", "/", "x">> }

AttrSets == {{}} \cup {{<<"href", h>>} : h \in Hrefs}

MatchSets == {{"h1 a"}, {".headline a"}, {"h1 a", ".headline a"}}

Anchors == [strings : Texts, attrs : AttrSets, matched_by : MatchSets]

Pages == SeqsUpTo(Anchors, MaxAnchors)

BaseUrls ==
    { <<"https", ":", "//", "example.com">>,
      <<"https", ":", "//", "example.com", "/", "a", "/", "b", "#", "f">> }

Sessions == {"s1", "s2"}

NoHeadlinesFound == "No headlines found. Ensure the website structure is correct."

FetchError == "Error fetching the news"

\* soup.select(selector): the matching anchors in document order
select(soup, selector) == SelectSeq(soup, LAMBDA tag : selector \in tag.matched_by)

\* tag.get(key, default)
tag_get(tag, key, default) ==
    IF \E kv \in tag.attrs : kv[1] = key
    THEN (CHOOSE kv \in tag.attrs : kv[1] = key)[2]
    ELSE default

(***************************************************************************)
(* State of fetch_news_headlines, one frame per session running the page   *)
(* script of main.py.                                                      *)
(*   pc        "idle" | "fetching" | "loop" | "returned" | "raised"        *)
(*   url       the argument                                                *)
(*   response  "none" | "ok" | "error": how requests.get ended             *)
(*   soup      the parsed page                                             *)
(*   sel       index in headline_selectors of the selector being iterated  *)
(*   tags      what is left of soup.select(selector)                       *)
(*   headlines_with_links  the accumulator                                 *)
(*   outcome   the list returned (pc = "returned")                         *)
(*   raised    the message of the exception (pc = "raised")                *)
(***************************************************************************)
VARIABLES pc, url, response, soup, sel, tags, headlines_with_links, outcome,
          raised

extractVars == <<pc, url, response, soup, sel, tags, headlines_with_links,
                 outcome, raised>>

(***************************************************************************)
(* State of the page script of chains.py and of its polling loop.          *)
(*   app_pc            where create_streamlit_app stands                   *)
(*   global_headlines  what fetch_global_trending_news gave the script     *)
(*   live_pc           where fetch_live_news stands                        *)
(*   latest_news       what fetch_global_trending_news gave the loop       *)
(*   displayed         headlines of latest_news written in this round      *)
(*   session_state     st.session_state, a set of <<key, value>> pairs     *)
(*   clicked           the button whose click caused the current script    *)
(*                     run ("none": the first load of the page)            *)
(*   likes             how many times the user clicked "Like an Article"   *)
(*   badge             the reward badge is on the page of the current run  *)
(***************************************************************************)
VARIABLES app_pc, global_headlines, live_pc, latest_news, displayed,
          session_state, clicked, likes, badge

engageVars == <<session_state, clicked, likes, badge>>

newsVars == <<app_pc, global_headlines, live_pc, latest_news, displayed,
              engageVars>>

vars == <<extractVars, newsVars>>

InitExtract ==
    /\ pc = [c \in Sessions |-> "idle"]
    /\ url = [c \in Sessions |-> << >>]
    /\ response = [c \in Sessions |-> "none"]
    /\ soup = [c \in Sessions |-> << >>]
    /\ sel = [c \in Sessions |-> 0]
    /\ tags = [c \in Sessions |-> << >>]
    /\ headlines_with_links = [c \in Sessions |-> << >>]
    /\ outcome = [c \in Sessions |-> << >>]
    /\ raised = [c \in Sessions |-> ""]

\* main.py 146-149: the "Fetch Headlines" button calls fetch_news_headlines(url_input)
Call(c, u) ==
    /\ pc[c] \in {"idle", "returned", "raised"}
    /\ pc' = [pc EXCEPT ![c] = "fetching"]
    /\ url' = [url EXCEPT ![c] = u]
    /\ response' = [response EXCEPT ![c] = "none"]
    /\ soup' = [soup EXCEPT ![c] = << >>]
    /\ sel' = [sel EXCEPT ![c] = 0]
    /\ tags' = [tags EXCEPT ![c] = << >>]
    /\ headlines_with_links' = [headlines_with_links EXCEPT ![c] = << >>]
    /\ outcome' = [outcome EXCEPT ![c] = << >>]
    /\ raised' = [raised EXCEPT ![c] = ""]
    /\ UNCHANGED newsVars

\* main.py 36-37, 41-47: the request succeeds with one of the pages the site
\* may serve, the page is parsed, the accumulator starts empty
FetchOk(c, served) ==
    /\ pc[c] = "fetching"
    /\ \E page \in served : soup' = [soup EXCEPT ![c] = page]
    /\ response' = [response EXCEPT ![c] = "ok"]
    /\ headlines_with_links' = [headlines_with_links EXCEPT ![c] = << >>]
    /\ sel' = [sel EXCEPT ![c] = 0]
    /\ tags' = [tags EXCEPT ![c] = << >>]
    /\ pc' = [pc EXCEPT ![c] = "loop"]
    /\ UNCHANGED <<url, outcome, raised, newsVars>>

\* the RequestException swallowed: the function goes on with an empty page
FetchFailSwallowed(c) ==
    /\ pc[c] = "fetching"
    /\ response' = [response EXCEPT ![c] = "error"]
    /\ soup' = [soup EXCEPT ![c] = << >>]
    /\ pc' = [pc EXCEPT ![c] = "loop"]
    /\ UNCHANGED <<url, sel, tags, headlines_with_links, outcome, raised, newsVars>>

\* main.py 38-39: requests.get or raise_for_status raised a RequestException
FetchFail(c) ==
    /\ pc[c] = "fetching"
    /\ response' = [response EXCEPT ![c] = "error"]
    /\ raised' = [raised EXCEPT ![c] = FetchError]
    /\ pc' = [pc EXCEPT ![c] = "raised"]
    /\ UNCHANGED <<url, soup, sel, tags, headlines_with_links, outcome, newsVars>>

\* first match wins: once a selector has given headlines the others are skipped
NextSelectorFirstWins(c) ==
    /\ pc[c] = "loop"
    /\ tags[c] = << >>
    /\ sel[c] < Len(headline_selectors)
    /\ IF headlines_with_links[c] # << >>
       THEN /\ sel' = [sel EXCEPT ![c] = Len(headline_selectors)]
            /\ tags' = tags
       ELSE /\ sel' = [sel EXCEPT ![c] = sel[c] + 1]
            /\ tags' = [tags EXCEPT ![c] = select(soup[c], headline_selectors[sel[c] + 1])]
    /\ UNCHANGED <<pc, url, response, soup, headlines_with_links, outcome, raised, newsVars>>

\* main.py 49-50: the outer loop takes the next selector and queries the page
NextSelector(c) ==
    /\ pc[c] = "loop"
    /\ tags[c] = << >>
    /\ sel[c] < Len(headline_selectors)
    /\ sel' = [sel EXCEPT ![c] = sel[c] + 1]
    /\ tags' = [tags EXCEPT ![c] = select(soup[c], headline_selectors[sel[c] + 1])]
    /\ UNCHANGED <<pc, url, response, soup, headlines_with_links, outcome, raised, newsVars>>

\* the inner loop body with a duplicate check: a text already collected is dropped
ProcessTagDedup(c) ==
    /\ pc[c] = "loop"
    /\ tags[c] # << >>
    /\ LET tag  == Head(tags[c])
           text == get_text(tag)
           link == tag_get(tag, "href", <<"#">>)
           seen == \E i \in 1..Len(headlines_with_links[c]) :
                       headlines_with_links[c][i][1] = text
       IN  headlines_with_links' =
               IF text # << >> /\ ~seen
               THEN [headlines_with_links EXCEPT
                        ![c] = Append(@, <<text, urljoin(url[c], link)>>)]
               ELSE headlines_with_links
    /\ tags' = [tags EXCEPT ![c] = Tail(tags[c])]
    /\ UNCHANGED <<pc, url, response, soup, sel, outcome, raised, newsVars>>

\* the inner loop body with the accumulator shared by all sessions (a module
\* level list instead of a local one)
ProcessTagShared(c) ==
    /\ pc[c] = "loop"
    /\ tags[c] # << >>
    /\ LET tag  == Head(tags[c])
           text == get_text(tag)
           link == tag_get(tag, "href", <<"#">>)
       IN  headlines_with_links' =
               IF text # << >>
               THEN [d \in Sessions |->
                        Append(headlines_with_links[d], <<text, urljoin(url[c], link)>>)]
               ELSE headlines_with_links
    /\ tags' = [tags EXCEPT ![c] = Tail(tags[c])]
    /\ UNCHANGED <<pc, url, response, soup, sel, outcome, raised, newsVars>>

\* main.py 50-56: the body of the inner loop for one matched anchor
ProcessTag(c) ==
    /\ pc[c] = "loop"
    /\ tags[c] # << >>
    /\ LET tag  == Head(tags[c])
           text == get_text(tag)
           link == tag_get(tag, "href", <<"#">>)
       IN  headlines_with_links' =
               IF text # << >>
               THEN [headlines_with_links EXCEPT
                        ![c] = Append(@, <<text, urljoin(url[c], link)>>)]
               ELSE headlines_with_links
    /\ tags' = [tags EXCEPT ![c] = Tail(tags[c])]
    /\ UNCHANGED <<pc, url, response, soup, sel, outcome, raised, newsVars>>

\* the emptiness check left out: the empty accumulator is returned
ReturnEmpty(c) ==
    /\ pc[c] = "loop"
    /\ tags[c] = << >>
    /\ sel[c] = Len(headline_selectors)
    /\ headlines_with_links[c] = << >>
    /\ outcome' = [outcome EXCEPT ![c] = headlines_with_links[c]]
    /\ pc' = [pc EXCEPT ![c] = "returned"]
    /\ UNCHANGED <<url, response, soup, sel, tags, headlines_with_links, raised, newsVars>>

\* main.py 58-59
RaiseNoHeadlines(c) ==
    /\ pc[c] = "loop"
    /\ tags[c] = << >>
    /\ sel[c] = Len(headline_selectors)
    /\ headlines_with_links[c] = << >>
    /\ raised' = [raised EXCEPT ![c] = NoHeadlinesFound]
    /\ pc' = [pc EXCEPT ![c] = "raised"]
    /\ UNCHANGED <<url, response, soup, sel, tags, headlines_with_links, outcome, newsVars>>

\* main.py 61
Return(c) ==
    /\ pc[c] = "loop"
    /\ tags[c] = << >>
    /\ sel[c] = Len(headline_selectors)
    /\ headlines_with_links[c] # << >>
    /\ outcome' = [outcome EXCEPT ![c] = headlines_with_links[c]]
    /\ pc' = [pc EXCEPT ![c] = "returned"]
    /\ UNCHANGED <<url, response, soup, sel, tags, headlines_with_links, raised, newsVars>>

NoResult == [kind |-> "none", list |-> << >>, error |-> ""]

InitNews ==
    /\ app_pc = "start"
    /\ global_headlines = NoResult
    /\ live_pc = "idle"
    /\ latest_news = NoResult
    /\ displayed = 0
    /\ session_state = {}
    /\ clicked = "none"
    /\ likes = 0
    /\ badge = FALSE

Init == InitExtract /\ InitNews

(***************************************************************************)
(* Spec: one session of main.py fetching headlines from any page.          *)
(***************************************************************************)
Next ==
    \/ \E u \in BaseUrls : Call("s1", u)
    \/ FetchOk("s1", Pages)
    \/ FetchFail("s1")
    \/ NextSelector("s1")
    \/ ProcessTag("s1")
    \/ RaiseNoHeadlines("s1")
    \/ Return("s1")

Spec == Init /\ [][Next]_vars

(***************************************************************************)
(* What a page holds, stated on the page itself.                           *)
(***************************************************************************)
\* the anchor has a character that is not whitespace: its text is non-empty
\* after trimming
Qualifies(tag) ==
    \E i \in 1..Len(tag.strings) :
        \E j \in 1..Len(tag.strings[i]) : tag.strings[i][j] \notin Whitespace

HasHref(tag) == \E kv \in tag.attrs : kv[1] = "href"

HrefOf(tag) == (CHOOSE kv \in tag.attrs : kv[1] = "href")[2]

\* the matches of all selectors: selector order, then document order
MatchedInOrder(page) ==
    Concat([i \in 1..Len(headline_selectors) |->
               SelectSeq(page, LAMBDA tag : headline_selectors[i] \in tag.matched_by)])

\* the matches that have a text
Kept(page) == SelectSeq(MatchedInOrder(page), Qualifies)

\* the (selector, position) pairs of the matches that have a text
QualifyingMatches(page) ==
    {m \in (1..Len(headline_selectors)) \X (1..Len(page)) :
        /\ headline_selectors[m[1]] \in page[m[2]].matched_by
        /\ Qualifies(page[m[2]])}

TextsOf(entries) == [i \in 1..Len(entries) |-> entries[i][1]]

\* scheme ":" ... (RFC 3986, absolute URI)
IsAbsoluteURI(u) == Len(u) >= 2 /\ u[1] \notin Delims /\ u[2] = ":"

\* scheme "://" host of a base URL
Origin(base) == SubSeq(base, 1, 4)

ExampleCom == <<"https", ":", "//", "example.com">>

(***************************************************************************)
(* C1 (as stated): a returned list never holds two entries with the same   *)
(* text; an anchor whose trimmed text was already collected is dropped.    *)
(***************************************************************************)
C1_NoDuplicateTexts ==
    \A c \in Sessions :
        pc[c] = "returned" =>
            \A i, j \in 1..Len(outcome[c]) :
                i # j => outcome[c][i][1] # outcome[c][j][1]

(***************************************************************************)
(* C1 (amended): nothing is dropped for its text.  For every text, the     *)
(* returned list holds as many entries with that text as there are         *)
(* (selector, anchor) matches whose trimmed text it is, so a text may      *)
(* occur several times, each time with the link of its own anchor.         *)
(***************************************************************************)
C1_OneEntryPerMatch ==
    \A c \in Sessions :
        pc[c] = "returned" =>
            /\ Len(outcome[c]) = Cardinality(QualifyingMatches(soup[c]))
            /\ \A k \in 1..Len(outcome[c]) :
                  Cardinality({i \in 1..Len(outcome[c]) :
                                  outcome[c][i][1] = outcome[c][k][1]})
                  = Cardinality({m \in QualifyingMatches(soup[c]) :
                                  get_text(soup[c][m[2]]) = outcome[c][k][1]})

\* two anchors with the same trimmed text and different links are both returned
C1_Witness ==
    /\ pc["s1"] = "returned"
    /\ Len(soup["s1"]) = 2
    /\ soup["s1"][1].matched_by = {"h1 a"}
    /\ soup["s1"][2].matched_by = {".headline a"}
    /\ Len(outcome["s1"]) = 2
    /\ outcome["s1"][1][1] = outcome["s1"][2][1]
    /\ outcome["s1"][1][2] # outcome["s1"][2][2]

(***************************************************************************)
(* C2: the entry of a matched anchor with a text and no href has the link  *)
(* "#" itself, not something resolved against the base URL.                *)
(***************************************************************************)
C2_MissingHrefGivesSentinel ==
    \A c \in Sessions :
        pc[c] = "returned" =>
            \A i \in 1..Len(outcome[c]) :
                (i <= Len(Kept(soup[c])) /\ ~HasHref(Kept(soup[c])[i]))
                    => outcome[c][i][2] = <<"#">>

(***************************************************************************)
(* C3: the returned list is the matches of ALL selectors that have a text, *)
(* in selector order and, within a selector, in document order; the text   *)
(* of every such match is in the list.                                     *)
(***************************************************************************)
C3_AllSelectorsInOrder ==
    \A c \in Sessions :
        pc[c] = "returned" =>
            /\ TextsOf(outcome[c])
                 = [i \in 1..Len(Kept(soup[c])) |-> get_text(Kept(soup[c])[i])]
            /\ \A m \in QualifyingMatches(soup[c]) :
                  \E i \in 1..Len(outcome[c]) :
                      outcome[c][i][1] = get_text(soup[c][m[2]])

\* the anchor of the later selector comes first in the document and second
\* in the result
C3_Witness ==
    /\ pc["s1"] = "returned"
    /\ Len(soup["s1"]) = 2
    /\ soup["s1"][1].matched_by = {".headline a"}
    /\ soup["s1"][2].matched_by = {"h1 a"}
    /\ Len(outcome["s1"]) = 2
    /\ outcome["s1"][1][1] = get_text(soup["s1"][2])
    /\ outcome["s1"][2][1] = get_text(soup["s1"][1])
    /\ outcome["s1"][1][1] # outcome["s1"][2][1]

(***************************************************************************)
(* C4: once all selectors are processed the call raises "No headlines      *)
(* found" exactly when no match of any selector has a text; it never       *)
(* returns an empty list.                                                  *)
(***************************************************************************)
C4_NoHeadlinesIffNothingQualifies ==
    \A c \in Sessions :
        /\ pc[c] = "returned" =>
              /\ outcome[c] # << >>
              /\ QualifyingMatches(soup[c]) # {}
        /\ (pc[c] = "raised" /\ response[c] = "ok") =>
              /\ raised[c] = NoHeadlinesFound
              /\ QualifyingMatches(soup[c]) = {}

\* a page with matched anchors, none of which has a text
C4_Witness ==
    /\ pc["s1"] = "raised"
    /\ raised["s1"] = NoHeadlinesFound
    /\ Len(soup["s1"]) = 2
    /\ \A i \in 1..2 : soup["s1"][i].matched_by # {}

(***************************************************************************)
(* C5 (as stated): the only failure of the operation is "No headlines      *)
(* found"; no call ends in a fetch error.                                  *)
(***************************************************************************)
C5_OnlyNoHeadlinesFound ==
    \A c \in Sessions : pc[c] = "raised" => raised[c] = NoHeadlinesFound

(***************************************************************************)
(* C5 (amended): the operation fetches the page itself and has two         *)
(* failures: the fetch error, raised exactly when its request failed, and  *)
(* "No headlines found", raised only for a fetched page and decided by the *)
(* page content alone.                                                     *)
(***************************************************************************)
C5_TwoFailureKinds ==
    \A c \in Sessions :
        /\ pc[c] = "raised" =>
              \/ raised[c] = FetchError /\ response[c] = "error"
              \/ /\ raised[c] = NoHeadlinesFound
                 /\ response[c] = "ok"
                 /\ QualifyingMatches(soup[c]) = {}
        /\ (response[c] = "error") => (pc[c] = "raised" /\ raised[c] = FetchError)

C5_Witness ==
    /\ pc["s1"] = "raised"
    /\ raised["s1"] = FetchError
    /\ response["s1"] = "error"

(***************************************************************************)
(* C6: the link of every entry whose anchor has an href is an absolute     *)
(* URI, the href resolved against the base URL: an absolute href is kept,  *)
(* an href that is an absolute path replaces the path of the base URL      *)
(* ("/story/1" at https://example.com is https://example.com/story/1).     *)
(***************************************************************************)
C6_LinksResolvedAgainstBase ==
    \A c \in Sessions :
        pc[c] = "returned" =>
            /\ Len(outcome[c]) = Len(Kept(soup[c]))
            /\ \A i \in 1..Len(outcome[c]) :
                  HasHref(Kept(soup[c])[i]) =>
                      LET href == HrefOf(Kept(soup[c])[i])
                          link == outcome[c][i][2]
                      IN  /\ IsAbsoluteURI(link)
                          /\ IsAbsoluteURI(href) => link = href
                          /\ (~IsAbsoluteURI(href) /\ href[1] = "/")
                                => link = Origin(url[c]) \o href

\* scenario A of the specification
C6_Witness ==
    /\ pc["s1"] = "returned"
    /\ url["s1"] = ExampleCom
    /\ Len(soup["s1"]) = 1
    /\ soup["s1"][1].attrs = {<<"href", <<"/", "story", "/", "1">>>>}
    /\ outcome["s1"] = << <<get_text(soup["s1"][1]),
                            ExampleCom \o <<"/", "story", "/", "1">> >> >>

(***************************************************************************)
(* C8: every returned text is non-empty and has no whitespace at either    *)
(* end; a matched anchor with nothing but whitespace gives no entry,       *)
(* whatever its href.                                                      *)
(***************************************************************************)
C8_TextsTrimmedAndNonEmpty ==
    \A c \in Sessions :
        pc[c] = "returned" =>
            /\ \A i \in 1..Len(outcome[c]) :
                  LET text == outcome[c][i][1]
                  IN  /\ text # << >>
                      /\ text[1] \notin Whitespace
                      /\ text[Len(text)] \notin Whitespace
            /\ Len(outcome[c]) = Cardinality(QualifyingMatches(soup[c]))

\* a whitespace-only anchor with an href is skipped, a padded one is trimmed
C8_Witness ==
    /\ pc["s1"] = "returned"
    /\ Len(soup["s1"]) = 2
    /\ ~Qualifies(soup["s1"][1])
    /\ HasHref(soup["s1"][1])
    /\ soup["s1"][1].matched_by = {"h1 a"}
    /\ soup["s1"][2].strings = << <<" ", "X", " ">> >>
    /\ soup["s1"][2].matched_by = {"h1 a"}
    /\ Len(outcome["s1"]) = 1
    /\ outcome["s1"][1][1] = <<"X">>

(***************************************************************************)
(* SpecPure: two sessions call fetch_news_headlines at the same time, in   *)
(* any interleaving.  The site answers each request with any of the pages  *)
(* it may serve at that moment, or the request fails.                      *)
(***************************************************************************)
PureAnchors ==
    { [strings |-> << <<"X">> >>,
       attrs |-> {<<"href", <<"/", "story", "/", "1">>>>},
       matched_by |-> {"h1 a"}],
      [strings |-> << <<" ", "Y">>, <<"\n">> >>,
       attrs |-> {},
       matched_by |-> {"h1 a", ".headline a"}] }

PurePages == SeqsUpTo(PureAnchors, MaxAnchors)

NextPure ==
    \E c \in Sessions :
        \/ \E u \in BaseUrls : Call(c, u)
        \/ FetchOk(c, PurePages)
        \/ FetchFail(c)
        \/ NextSelector(c)
        \/ ProcessTag(c)
        \/ RaiseNoHeadlines(c)
        \/ Return(c)

SpecPure == Init /\ [][NextPure]_vars

Finished(c) == pc[c] \in {"returned", "raised"}

SameOutcome(c, d) ==
    /\ pc[c] = pc[d]
    /\ outcome[c] = outcome[d]
    /\ raised[c] = raised[d]

(***************************************************************************)
(* C7 (as stated): two calls with the same input, the URL, end the same    *)
(* way: the same list in the same order, or the same failure.              *)
(***************************************************************************)
C7_SameUrlSameOutcome ==
    \A c, d \in Sessions :
        (Finished(c) /\ Finished(d) /\ url[c] = url[d]) => SameOutcome(c, d)

(***************************************************************************)
(* C7 (amended): the outcome of a call is a function of the URL and of     *)
(* the answer its own request got.  Two calls with the same URL whose      *)
(* requests got the same answer (the same page, or both a failure) end the *)
(* same way, however their steps interleave: the same list in the same     *)
(* order, or the same failure.  Calls with the same URL alone may differ.  *)
(***************************************************************************)
C7_SameUrlSamePageSameOutcome ==
    \A c, d \in Sessions :
        (/\ Finished(c) /\ Finished(d)
         /\ url[c] = url[d]
         /\ response[c] = response[d]
         /\ soup[c] = soup[d])
            => SameOutcome(c, d)

\* both sessions returned the same two headlines for the same page
C7_Witness ==
    /\ pc["s1"] = "returned"
    /\ pc["s2"] = "returned"
    /\ url["s1"] = url["s2"]
    /\ soup["s1"] = soup["s2"]
    /\ Len(soup["s1"]) = 2
    /\ Len(outcome["s1"]) >= 2
    /\ outcome["s1"] = outcome["s2"]

(***************************************************************************)
(* chains.py: NewsAPI answers, fetch_global_trending_news, the page script *)
(* and the polling loop.  An article is its JSON object, a set of          *)
(* <<key, value>> pairs.                                                   *)
(***************************************************************************)
MaxArticles == 2

\* "Like an Article" clicks followed in one session: the badge needs ten
MaxLikes == 11

ArticleTitles == {"Markets rally", "AI for health"}

ArticleUrls == {<<"https", ":", "//", "news.org", "/", "1">>}

Articles ==
    {t \cup u : t \in {{}} \cup {{<<"title", x>>} : x \in ArticleTitles},
                u \in {{}} \cup {{<<"url", y>>} : y \in ArticleUrls}}

\* what requests.get / raise_for_status / response.json() can end with
Responses ==
    {[failed |-> TRUE, status |-> "", articles |-> << >>],
     [failed |-> FALSE, status |-> "error", articles |-> << >>]}
    \cup {[failed |-> FALSE, status |-> "ok", articles |-> a] :
             a \in SeqsUpTo(Articles, MaxArticles)}

HasKey(obj, key) == \E kv \in obj : kv[1] = key

\* dict.get(key, default)
dict_get(obj, key, default) ==
    IF HasKey(obj, key) THEN (CHOOSE kv \in obj : kv[1] = key)[2] ELSE default

\* chains.py 43-58.  kind "list": the list returned; "raise": the exception
\* that leaves the function; "none": the function ends without a return
\* statement and gives None
fetch_global_trending_news(resp) ==
    IF resp.failed
    THEN NoResult
    ELSE IF resp.status = "ok"
    THEN IF resp.articles = << >>
         THEN [kind |-> "raise", list |-> << >>,
               error |-> "No global trending news found."]
         ELSE IF \E i \in 1..Len(resp.articles) : ~HasKey(resp.articles[i], "title")
         THEN [kind |-> "raise", list |-> << >>, error |-> "KeyError: 'title'"]
         ELSE [kind |-> "list",
               list |-> [i \in 1..Len(resp.articles) |->
                           <<dict_get(resp.articles[i], "title", ""),
                             dict_get(resp.articles[i], "url", <<"#">>)>>],
               error |-> ""]
    ELSE NoResult

\* chains.py 157: the script calls fetch_global_trending_news; an exception
\* ends the script run
AppFetch ==
    /\ app_pc = "start"
    /\ \E resp \in Responses :
          /\ global_headlines' = fetch_global_trending_news(resp)
          /\ app_pc' = IF fetch_global_trending_news(resp).kind = "raise"
                       THEN "crashed" ELSE "digest"
    /\ UNCHANGED <<live_pc, latest_news, displayed, extractVars, engageVars>>

\* chains.py 160-194: the script iterates global_headlines (digest,
\* categories, translations): a list is rendered
AppDigest ==
    /\ app_pc = "digest"
    /\ global_headlines.kind = "list"
    /\ app_pc' = "engagement"
    /\ UNCHANGED <<global_headlines, live_pc, latest_news, displayed, extractVars, engageVars>>

\* chains.py 160-164: iterating None raises TypeError, which ends the script run
AppDigestTypeError ==
    /\ app_pc = "digest"
    /\ global_headlines.kind = "none"
    /\ app_pc' = "crashed"
    /\ UNCHANGED <<global_headlines, live_pc, latest_news, displayed, extractVars, engageVars>>

\* dict[key] = value
dict_set(obj, key, value) ==
    {kv \in obj : kv[1] # key} \cup {<<key, value>>}

\* chains.py 216-224: the engagement block of the script.  st.button gives
\* True only in the run its own click caused; True * 10 is 10, False * 10 is 0
AppPoints ==
    /\ app_pc = "engagement"
    /\ LET initialised == IF ~HasKey(session_state, "points")
                          THEN dict_set(session_state, "points", 0)
                          ELSE session_state
           button == IF clicked = "like" THEN 1 ELSE 0
           updated == dict_set(initialised, "points",
                               dict_get(initialised, "points", 0) + button * 10)
       IN  /\ session_state' = updated
           /\ badge' = (dict_get(updated, "points", 0) >= 100)
    /\ app_pc' = "rendered"
    /\ UNCHANGED <<global_headlines, live_pc, latest_news, displayed,
                   clicked, likes, extractVars>>

\* chains.py 227-228: st.button("Start Live Updates") is True in the run its
\* click caused, and the script enters fetch_live_news
AppStartLive ==
    /\ app_pc = "rendered"
    /\ clicked = "live"
    /\ app_pc' = "live"
    /\ live_pc' = "fetch"
    /\ latest_news' = NoResult
    /\ displayed' = 0
    /\ UNCHANGED <<global_headlines, extractVars, engageVars>>

\* the buttons of the page: "Like an Article", "Start Live Updates", and any
\* other widget ("Check for Fake News", "Export as PDF", the sidebar)
Buttons == {"like", "live", "other"}

\* chains.py 233-234: any interaction with the page runs the script again,
\* on an empty page; st.session_state is kept across the runs of a session.
\* The two buttons of lines 220 and 227 are on the page only when the last
\* run got that far (it rendered, or it ended inside fetch_live_news); the
\* sidebar widgets of lines 140-154 are on every page
AppRerun(button) ==
    /\ app_pc \in {"rendered", "crashed"}
    /\ button \in {"like", "live"} => (app_pc = "rendered" \/ live_pc = "crashed")
    /\ button = "like" => likes < MaxLikes
    /\ app_pc' = "start"
    /\ global_headlines' = NoResult
    /\ live_pc' = "idle"
    /\ latest_news' = NoResult
    /\ displayed' = 0
    /\ clicked' = button
    /\ likes' = IF button = "like" THEN likes + 1 ELSE likes
    /\ badge' = FALSE
    /\ UNCHANGED <<session_state, extractVars>>

\* chains.py 116-117: a round starts with the fetch; an exception leaves the
\* loop and the script
LiveFetch ==
    /\ live_pc = "fetch"
    /\ \E resp \in Responses :
          /\ latest_news' = fetch_global_trending_news(resp)
          /\ IF fetch_global_trending_news(resp).kind = "raise"
             THEN live_pc' = "crashed" /\ app_pc' = "crashed"
             ELSE live_pc' = "display" /\ app_pc' = app_pc
    /\ displayed' = 0
    /\ UNCHANGED <<global_headlines, extractVars, engageVars>>

\* chains.py 119-120: one headline of the round is written
LiveDisplay ==
    /\ live_pc = "display"
    /\ latest_news.kind = "list"
    /\ displayed < Len(latest_news.list)
    /\ displayed' = displayed + 1
    /\ UNCHANGED <<app_pc, global_headlines, live_pc, latest_news, extractVars, engageVars>>

\* chains.py 119: enumerate(None, 1) raises TypeError, which leaves the loop
LiveDisplayTypeError ==
    /\ live_pc = "display"
    /\ latest_news.kind = "none"
    /\ live_pc' = "crashed"
    /\ app_pc' = "crashed"
    /\ UNCHANGED <<global_headlines, latest_news, displayed, extractVars, engageVars>>

\* chains.py 121: all headlines written, the loop sleeps 30 s
LiveSleep ==
    /\ live_pc = "display"
    /\ latest_news.kind = "list"
    /\ displayed = Len(latest_news.list)
    /\ live_pc' = "sleep"
    /\ UNCHANGED <<app_pc, global_headlines, latest_news, displayed, extractVars, engageVars>>

\* chains.py 116: while True, the next round
LiveWake ==
    /\ live_pc = "sleep"
    /\ live_pc' = "fetch"
    /\ UNCHANGED <<app_pc, global_headlines, latest_news, displayed, extractVars, engageVars>>

NextLive ==
    \/ AppFetch
    \/ AppDigest
    \/ AppDigestTypeError
    \/ AppPoints
    \/ AppStartLive
    \/ \E button \in Buttons : AppRerun(button)
    \/ LiveFetch
    \/ LiveDisplay
    \/ LiveDisplayTypeError
    \/ LiveSleep
    \/ LiveWake

SpecLive == Init /\ [][NextLive]_vars

(***************************************************************************)
(* C9: once started, fetch_live_news goes from round to round whatever     *)
(* the fetch gave; it has no exit of its own, so it is never found ended.  *)
(***************************************************************************)
C9_LiveLoopNeverExits == live_pc # "crashed"

(***************************************************************************)
(* C10: fetch_global_trending_news of chains.py either returns a           *)
(* non-empty list or raises; its callers never hold a missing value when   *)
(* they start to iterate.                                                  *)
(***************************************************************************)
C10_ListOrRaise ==
    /\ app_pc = "digest" =>
          (global_headlines.kind = "list" /\ global_headlines.list # << >>)
    /\ live_pc = "display" =>
          (latest_news.kind = "list" /\ latest_news.list # << >>)

(***************************************************************************)
(* The engagement counter as the page reads it; a session whose script     *)
(* never reached the engagement block has no counter yet, read as 0.       *)
(***************************************************************************)
points == dict_get(session_state, "points", 0)

\* the script run has passed the engagement block or has ended before it
RunOver == app_pc \in {"rendered", "crashed", "live"}

\* what the counter keeps in every run: a multiple of 10, never more than
\* ten per click, and a badge on the page only with 100 points or more
PointsWithinLikes ==
    /\ points % 10 = 0
    /\ points <= 10 * likes
    /\ badge => points >= 100

(***************************************************************************)
(* C11: in one session the counter starts at 0, rises by exactly 10 in     *)
(* every run caused by a "Like an Article" click and keeps its value in    *)
(* every other run, so when a run is over the counter is ten times the     *)
(* number of clicks; and the badge is on the page of a run exactly when    *)
(* the counter is 100 or more.                                             *)
(***************************************************************************)
C11_PointsFollowLikes ==
    RunOver =>
        /\ points = 10 * likes
        /\ badge <=> (points >= 100)

====
